---- MODULE Spec2Model ----
(***************************************************************************)
(* EyelinkCNI (src/eyelinkcnicore.py): the configuration object and the    *)
(* sequence of display and tracker SDK calls it issues.                    *)
(*                                                                         *)
(* Text is a sequence of one-character strings, so that slicing, length    *)
(* and concatenation are the ones of Python's str. A colour is a triple    *)
(* of hundredths (0.5 is 50). Every SDK call the object makes is appended  *)
(* to `log`, which is cleared when the caller enters trigger_eyelink or    *)
(* disconnect_eyelink.                                                     *)
(***************************************************************************)
EXTENDS Integers, Sequences, FiniteSets, TLC

VARIABLES
  pc,                 \* position of the single thread of control
  self,               \* the object's configuration fields
  edf_file,           \* self.edf_file (<<>> until _open_edf_file assigns it)
  experiment_monitor, \* the monitors.Monitor built by __init__
  experiment_window,  \* the visual.Window built by open_window
  el_tracker,         \* the pylink.EyeLink object and the tracker's state
  tracker_version,    \* what getTrackerVersionString() returns on this rig
  args,               \* the arguments the caller gave: kwargs, phase, block
  log,                \* SDK calls made by the running operation, in order
  last_op,            \* the operation that returned last
  exit_status,        \* status given to sys.exit, -1 while running
  calls               \* number of operations the caller has started

vars == <<pc, self, edf_file, experiment_monitor, experiment_window,
          el_tracker, tracker_version, args, log, last_op, exit_status, calls>>

----------------------------------------------------------------------------
\* Bounds of the model.

\* Calls of open_window, trigger_eyelink and disconnect_eyelink one process
\* may make.
MaxCalls == 4

----------------------------------------------------------------------------
\* Text helpers.

Digits == <<"0", "1", "2", "3", "4", "5", "6", "7", "8", "9">>

RECURSIVE StrNat(_)
StrNat(n) ==
  IF n < 10 THEN <<Digits[n + 1]>>
  ELSE Append(StrNat(n \div 10), Digits[(n % 10) + 1])

\* str(n) of a Python int.
Str(n) == IF n < 0 THEN <<"-">> \o StrNat(0 - n) ELSE StrNat(n)

IsDigit(c) == \E d \in 1..10 : Digits[d] = c

DigitVal(c) == (CHOOSE d \in 1..10 : Digits[d] = c) - 1

\* str.split(): the maximal runs of non-blank characters.
RECURSIVE SplitWs(_, _, _)
SplitWs(s, cur, acc) ==
  IF s = <<>> THEN (IF cur = <<>> THEN acc ELSE Append(acc, cur))
  ELSE IF Head(s) = " "
       THEN SplitWs(Tail(s), <<>>, IF cur = <<>> THEN acc ELSE Append(acc, cur))
       ELSE SplitWs(Tail(s), Append(cur, Head(s)), acc)

\* s.split('.')[0]: the text before the first dot.
RECURSIVE BeforeDot(_)
BeforeDot(s) ==
  IF s = <<>> \/ Head(s) = "." THEN <<>>
  ELSE <<Head(s)>> \o BeforeDot(Tail(s))

\* int(s) of a string of decimal digits.
RECURSIVE IntOf(_)
IntOf(s) ==
  IF s = <<>> THEN 0
  ELSE 10 * IntOf(SubSeq(s, 1, Len(s) - 1)) + DigitVal(s[Len(s)])

\* Whether int(s) returns: it raises ValueError on the empty string and on
\* a string with a character that is not a digit.
IntParses(s) == s # <<>> /\ \A i \in 1..Len(s) : IsDigit(s[i])

\* The text int() is applied to: vstr.split()[-1].split('.')[0]. The index
\* -1 raises IndexError when the string has no token.
MajorText(vstr) ==
  LET toks == SplitWs(vstr, <<>>, <<>>)
  IN  BeforeDot(toks[Len(toks)])

VersionParses(vstr) ==
  SplitWs(vstr, <<>>, <<>>) # <<>> /\ IntParses(MajorText(vstr))

eyelink_ver(vstr) == IntOf(MajorText(vstr))

----------------------------------------------------------------------------
\* Colours.

\* round((n/127.5) - 1, 2), in hundredths: the nearest integer to
\* 200n/255 - 100 (40n/51 is never halfway between two integers).
convert_n(n) == ((80 * n + 51) \div 102) - 100

convert_color(color) == [i \in 1..Len(color) |-> convert_n(color[i])]

----------------------------------------------------------------------------
\* Inputs.

EYELINK_I  == <<"E","Y","E","L","I","N","K"," ","I">>
EYELINK_II == <<"E","Y","E","L","I","N","K"," ","I","I"," ","2",".","1","4">>
EYELINK_CL3 == <<"E","Y","E","L","I","N","K"," ","C","L"," ","3",".","1","0">>
EYELINK_CL4 == <<"E","Y","E","L","I","N","K"," ","C","L"," ","4",".","5","6">>
EYELINK_CL5 == <<"E","Y","E","L","I","N","K"," ","C","L"," ","5",".","5","0">>
EYELINK_CL10 == <<"E","Y","E","L","I","N","K"," ","C","L"," ","1","0",".","2">>

\* Version strings a tracker may report.
VersionStrings ==
  {EYELINK_I, EYELINK_II, EYELINK_CL3, EYELINK_CL4, EYELINK_CL5, EYELINK_CL10}

\* Sizes the window may have (the native resolution when fullscreen).
WindowSizes == {<<1920, 1080>>, <<1280, 720>>, <<2560, 1440>>}

Phases == {<<"p","r","a","c","t","i","c","e">>, <<"t","e","s","t">>, <<>>}

Blocks == {1, 12, 1000}

\* The value a caller gives for each field it may name in the keyword
\* arguments of the constructor.
KwValue ==
  [monitor_width |-> 60,
   monitor_distance |-> 57,
   monitor_px |-> <<1280, 720>>,
   subject_id |-> <<"s","u","b","j","e","c","t","0","1">>,
   color_bg |-> convert_color(<<0, 0, 0>>),
   color_eyelink_bg |-> convert_color(<<255, 255, 255>>)]

\* The sets of field names a caller passes.
KwNames ==
  {{}, {"monitor_width"}, {"monitor_px", "monitor_distance"}, {"subject_id"},
   {"color_eyelink_bg"}, {"color_bg", "color_eyelink_bg"}}

\* The class after EyelinkCNI in the method resolution order of the object
\* under construction: object itself, or the base of a subclass that takes
\* the keyword arguments.
Bases == {"object", "cooperative"}

----------------------------------------------------------------------------
\* The object and the two SDKs.

\* The fields __init__ assigns before it reads the keyword arguments.
Defaults ==
  [color_text |-> convert_color(<<0, 0, 0>>),
   color_bg |-> convert_color(<<128, 128, 128>>),
   color_eyelink_bg |-> convert_color(<<128, 128, 128>>),
   monitor_width |-> 53,
   monitor_distance |-> 70,
   monitor_px |-> <<1920, 1080>>,
   fullscreen |-> TRUE,
   eyelink_ip |-> "100.1.1.1",
   subject_id |-> <<"d","e","m","o">>]

\* monitors.Monitor(name, width = ..., distance = ...) and setSizePix(...).
Monitor(fields) ==
  [width |-> fields.monitor_width,
   distance |-> fields.monitor_distance,
   sizePix |-> fields.monitor_px]

\* vars(self).update(kwargs)
update(fields, kw) ==
  [f \in DOMAIN fields |-> IF f \in DOMAIN kw THEN kw[f] ELSE fields[f]]

NoWindow == [exists |-> FALSE, open |-> FALSE, color |-> <<>>, size |-> <<0, 0>>]

NoTracker ==
  [exists |-> FALSE, connected |-> FALSE, edf_open |-> FALSE,
   recording |-> FALSE, offline |-> FALSE, graphics |-> FALSE]

\* One entry of the log: the SDK function, the command or message it
\* carries, its arguments and how it returned.
L(call, name, val, ret) == [call |-> call, name |-> name, val |-> val, ret |-> ret]

\* The effect of a tracker call that returns on the tracker's state.
SDK(el, call) ==
  CASE call = "EyeLink"        -> [el EXCEPT !.exists = TRUE, !.connected = TRUE]
    [] call = "openDataFile"   -> [el EXCEPT !.edf_open = TRUE]
    [] call = "closeDataFile"  -> [el EXCEPT !.edf_open = FALSE]
    [] call = "setOfflineMode" -> [el EXCEPT !.offline = TRUE]
    [] call = "startRecording" -> [el EXCEPT !.recording = TRUE, !.offline = FALSE]
    [] call = "stopRecording"  -> [el EXCEPT !.recording = FALSE]
    [] call = "openGraphicsEx" -> [el EXCEPT !.graphics = TRUE]
    [] call = "closeGraphics"  -> [el EXCEPT !.graphics = FALSE]
    [] call = "close"          -> [el EXCEPT !.connected = FALSE]
    [] OTHER                   -> el

\* A slip: the tracker is configured before the data file is opened.
trigger_eyelink_body_config_first ==
  <<"_connect_eyelink", "_send_edf_preamble", "_config_eyelink",
    "_open_edf_file", "_calibrate_eyelink", "_start_eyelink_recording">>

\* The helpers trigger_eyelink calls, in its order.
trigger_eyelink_body ==
  <<"_connect_eyelink", "_open_edf_file", "_send_edf_preamble",
    "_config_eyelink", "_calibrate_eyelink", "_start_eyelink_recording">>

\* A slip: the data file is closed while the tracker still records.
disconnect_eyelink_body_file_first ==
  <<"closeDataFile", "stopRecording", "setOfflineMode", "clear_screen",
    "msecDelay", "closeGraphics", "close">>

\* The calls disconnect_eyelink makes on a connected tracker, in its order.
disconnect_eyelink_body ==
  <<"stopRecording", "setOfflineMode", "clear_screen", "msecDelay",
    "closeDataFile", "closeGraphics", "close">>

InBody(body, m) == \E i \in 1..Len(body) : body[i] = m

\* Where control goes when step m of body returns: the next step, or back
\* to the caller after the last one.
After(body, m) ==
  LET i == CHOOSE j \in 1..Len(body) : body[j] = m
  IN  IF i = Len(body) THEN "idle" ELSE body[i + 1]

\* An exception nothing catches ends the process with a traceback.
Raise ==
  /\ pc' = "crashed"
  /\ UNCHANGED <<self, edf_file, experiment_monitor, experiment_window,
                 tracker_version, args, last_op, exit_status, calls>>

----------------------------------------------------------------------------
\* Construction and the display window.

Init ==
  /\ pc = "new"
  /\ self = <<>>
  /\ edf_file = <<>>
  /\ experiment_monitor = <<>>
  /\ experiment_window = NoWindow
  /\ el_tracker = NoTracker
  /\ tracker_version \in VersionStrings
  /\ args = [kwargs |-> <<>>, phase |-> <<>>, block |-> 0]
  /\ log = <<>>
  /\ last_op = "none"
  /\ exit_status = -1
  /\ calls = 0

\* EyelinkCNI(**kwargs). The first statement hands the keyword arguments
\* to the next class, and object.__init__ raises TypeError when given any.
__init__ ==
  /\ pc = "new"
  /\ \E names \in KwNames, base \in Bases :
       LET kwargs == [f \in names |-> KwValue[f]]
       IN  IF base = "object" /\ names # {}
           THEN /\ pc' = "crashed"
                /\ UNCHANGED <<self, experiment_monitor, args, last_op>>
           ELSE /\ experiment_monitor' = Monitor(Defaults)
                /\ self' = update(Defaults, kwargs)
                /\ args' = [args EXCEPT !.kwargs = kwargs]
                /\ last_op' = "__init__"
                /\ pc' = "idle"
  /\ UNCHANGED <<edf_file, experiment_window, el_tracker, tracker_version,
                 log, exit_status, calls>>

\* open_window(): a window on the monitor object, coloured color_bg.
open_window ==
  /\ pc = "idle"
  /\ calls < MaxCalls
  /\ calls' = calls + 1
  /\ \E size \in WindowSizes :
       experiment_window' =
         [exists |-> TRUE, open |-> TRUE, color |-> self.color_bg, size |-> size]
  /\ last_op' = "open_window"
  /\ UNCHANGED <<pc, self, edf_file, experiment_monitor, el_tracker,
                 tracker_version, args, log, exit_status>>

\* self.experiment_window.close() followed by sys.exit(1); the attribute
\* access raises AttributeError when no window was opened.
CloseWindowAndExit ==
  IF experiment_window.exists
  THEN /\ experiment_window' = [experiment_window EXCEPT !.open = FALSE]
       /\ pc' = "exited"
       /\ exit_status' = 1
  ELSE /\ pc' = "crashed"
       /\ UNCHANGED <<experiment_window, exit_status>>

----------------------------------------------------------------------------
\* trigger_eyelink(phase, block)

trigger_eyelink ==
  /\ pc = "idle"
  /\ calls < MaxCalls
  /\ calls' = calls + 1
  /\ \E phase \in Phases, block \in Blocks :
       args' = [args EXCEPT !.phase = phase, !.block = block]
  /\ log' = <<>>
  /\ pc' = trigger_eyelink_body[1]
  /\ UNCHANGED <<self, edf_file, experiment_monitor, experiment_window,
                 el_tracker, tracker_version, last_op, exit_status>>

\* The helper at pc returns to trigger_eyelink, which calls the next one or
\* returns to its caller.
Return(m) ==
  /\ pc' = After(trigger_eyelink_body, m)
  /\ last_op' = IF pc' = "idle" THEN "trigger_eyelink" ELSE last_op

\* A slip: a failed connection is tried a second time before giving up.
_connect_eyelink_retry ==
  /\ pc = "_connect_eyelink"
  /\ \/ /\ log' = Append(log, L("EyeLink", "", self.eyelink_ip, "ok"))
        /\ el_tracker' = SDK(el_tracker, "EyeLink")
        /\ Return("_connect_eyelink")
        /\ UNCHANGED <<experiment_window, exit_status>>
     \/ /\ log' = Append(log, L("EyeLink", "", self.eyelink_ip, "RuntimeError"))
        /\ IF log = <<>>
           THEN UNCHANGED <<pc, experiment_window, exit_status>>
           ELSE CloseWindowAndExit
        /\ UNCHANGED <<el_tracker, last_op>>
  /\ UNCHANGED <<self, edf_file, experiment_monitor, tracker_version, args, calls>>

\* pylink.EyeLink(self.eyelink_ip) returns the connected tracker, or raises
\* RuntimeError, which is printed before the window is closed and the
\* process exits.
_connect_eyelink ==
  /\ pc = "_connect_eyelink"
  /\ \/ /\ log' = Append(log, L("EyeLink", "", self.eyelink_ip, "ok"))
        /\ el_tracker' = SDK(el_tracker, "EyeLink")
        /\ Return("_connect_eyelink")
        /\ UNCHANGED <<experiment_window, exit_status>>
     \/ /\ log' = Append(log, L("EyeLink", "", self.eyelink_ip, "RuntimeError"))
        /\ CloseWindowAndExit
        /\ UNCHANGED <<el_tracker, last_op>>
  /\ UNCHANGED <<self, edf_file, experiment_monitor, tracker_version, args, calls>>

\* phase[0:1]
FirstChar(phase) == IF phase = <<>> THEN <<>> ELSE <<phase[1]>>

\* str(self.subject_id + phase[0:1] + str(block) + '.EDF')
EdfName(subject_id, phase, block) ==
  subject_id \o FirstChar(phase) \o Str(block) \o <<".", "E", "D", "F">>

\* A slip: the handler exits without closing a link that is still up.
_open_edf_file_leaves_link ==
  /\ pc = "_open_edf_file"
  /\ edf_file' = EdfName(self.subject_id, args.phase, args.block)
  /\ \/ /\ log' = Append(log, L("openDataFile", "", edf_file', "ok"))
        /\ el_tracker' = SDK(el_tracker, "openDataFile")
        /\ Return("_open_edf_file")
        /\ UNCHANGED <<experiment_window, exit_status>>
     \/ \E up \in {b \in BOOLEAN : b => el_tracker.connected} :
          /\ log' = Append(log, L("openDataFile", "", edf_file', "RuntimeError"))
          /\ el_tracker' = [el_tracker EXCEPT !.connected = up]
          /\ CloseWindowAndExit
          /\ UNCHANGED last_op
  /\ UNCHANGED <<self, experiment_monitor, tracker_version, args, calls>>

\* openDataFile(self.edf_file) returns, or raises RuntimeError with the
\* link still up or lost; the handler closes a link that isConnected()
\* reports, closes the window and exits.
_open_edf_file ==
  /\ pc = "_open_edf_file"
  /\ edf_file' = EdfName(self.subject_id, args.phase, args.block)
  /\ \/ /\ log' = Append(log, L("openDataFile", "", edf_file', "ok"))
        /\ el_tracker' = SDK(el_tracker, "openDataFile")
        /\ Return("_open_edf_file")
        /\ UNCHANGED <<experiment_window, exit_status>>
     \/ \E up \in {b \in BOOLEAN : b => el_tracker.connected} :
          LET failed == Append(log, L("openDataFile", "", edf_file', "RuntimeError"))
              asked  == Append(failed, L("isConnected", "", "", IF up THEN "True" ELSE "False"))
          IN  /\ log' = IF up THEN Append(asked, L("close", "", "", "ok")) ELSE asked
              /\ el_tracker' = [el_tracker EXCEPT !.connected = FALSE]
              /\ CloseWindowAndExit
              /\ UNCHANGED last_op
  /\ UNCHANGED <<self, experiment_monitor, tracker_version, args, calls>>

\* os.path.basename(__file__)
ModuleFile == "eyelinkcnicore.py"

_send_edf_preamble ==
  /\ pc = "_send_edf_preamble"
  /\ log' = Append(log, L("sendCommand", "add_file_preamble_text",
                          <<"RECORDED BY", ModuleFile>>, "ok"))
  /\ Return("_send_edf_preamble")
  /\ UNCHANGED <<self, edf_file, experiment_monitor, experiment_window,
                 el_tracker, tracker_version, args, exit_status, calls>>

----------------------------------------------------------------------------
\* _config_eyelink()

file_event_flags ==
  <<"LEFT", "RIGHT", "FIXATION", "SACCADE", "BLINK", "MESSAGE", "BUTTON", "INPUT">>

link_event_flags ==
  <<"LEFT", "RIGHT", "FIXATION", "SACCADE", "BLINK", "BUTTON", "FIXUPDATE", "INPUT">>

file_sample_flags(ver) ==
  IF ver > 3
  THEN <<"LEFT", "RIGHT", "GAZE", "HREF", "RAW", "AREA", "HTARGET", "GAZERES",
         "BUTTON", "STATUS", "INPUT">>
  ELSE <<"LEFT", "RIGHT", "GAZE", "HREF", "RAW", "AREA", "GAZERES", "BUTTON",
         "STATUS", "INPUT">>

link_sample_flags(ver) ==
  IF ver > 3
  THEN <<"LEFT", "RIGHT", "GAZE", "GAZERES", "AREA", "HTARGET", "STATUS", "INPUT">>
  ELSE <<"LEFT", "RIGHT", "GAZE", "GAZERES", "AREA", "STATUS", "INPUT">>

Command(name, val) == L("sendCommand", name, val, "ok")

\* The event and sample filters.
FilterCommands(ver) ==
  <<Command("file_event_filter", file_event_flags),
    Command("file_sample_data", file_sample_flags(ver)),
    Command("link_event_filter", link_event_flags),
    Command("link_sample_data", link_sample_flags(ver))>>

\* A slip: the sample rate is set on the threshold of the sample flags.
SampleRateCommands_above_3(ver) ==
  IF ver > 3 THEN <<L("sendCommand", "sample_rate", <<1000>>, "ok")>> ELSE <<>>

SampleRateCommands(ver) ==
  IF ver > 2 THEN <<Command("sample_rate", <<1000>>)>> ELSE <<>>

CalibrationCommands ==
  <<Command("calibration_type", <<"HV9">>),
    Command("randomize_calibration_order", <<"NO">>),
    Command("calibration_area_proportion", <<"1.0", "1.0">>),
    Command("validation_area_proportion", <<"0.6", "0.6">>),
    Command("button_function", <<"5", "accept_target_fixation">>)>>

\* The window's size as the tracker and the data file are told it.
CoordsCalls(size) ==
  <<Command("screen_pixel_coords", <<0, 0, size[1], size[2]>>),
    L("sendMessage", "DISPLAY_COORDS", <<0, 0, size[1], size[2]>>, "ok")>>

calib_x0 == 400
calib_x1 == 960
calib_x2 == 1420
calib_y0 == 300
calib_y1 == 540
calib_y2 == 780

calib_positions ==
  <<<<calib_x1, calib_y1>>,
    <<calib_x1, calib_y0>>,
    <<calib_x1, calib_y2>>,
    <<calib_x0, calib_y1>>,
    <<calib_x2, calib_y1>>,
    <<calib_x0, calib_y0>>,
    <<calib_x2, calib_y0>>,
    <<calib_x0, calib_y2>>,
    <<calib_x2, calib_y2>>>>

\* What the method has sent when it reaches the window's size.
ConfigHead(ver) ==
  FilterCommands(ver) \o SampleRateCommands(ver) \o CalibrationCommands

ConfigTail(size) ==
  CoordsCalls(size) \o <<Command("calibration_targets", calib_positions)>>

\* int() raises ValueError on a version string without a number, and the
\* window's size raises AttributeError when no window was opened.
_config_eyelink ==
  /\ pc = "_config_eyelink"
  /\ el_tracker' = SDK(el_tracker, "setOfflineMode")
  /\ LET asked == log \o <<L("setOfflineMode", "", "", "ok"),
                           L("getTrackerVersionString", "", "", "ok")>>
         ver   == eyelink_ver(tracker_version)
     IN  IF ~VersionParses(tracker_version)
         THEN /\ log' = asked
              /\ Raise
         ELSE IF ~experiment_window.exists
         THEN /\ log' = asked \o ConfigHead(ver)
              /\ Raise
         ELSE /\ log' = asked \o ConfigHead(ver) \o ConfigTail(experiment_window.size)
              /\ Return("_config_eyelink")
              /\ UNCHANGED <<self, edf_file, experiment_monitor, experiment_window,
                             tracker_version, args, exit_status, calls>>

----------------------------------------------------------------------------
\* _calibrate_eyelink() and _start_eyelink_recording()

\* A slip: the calibration screen is given the task colour.
_swap_bg_color_to_calibration_screen_task_colour ==
  /\ pc = "_calibrate_eyelink"
  /\ experiment_window' = [experiment_window EXCEPT !.color = self.color_bg]
  /\ pc' = "make_message"
  /\ UNCHANGED <<self, edf_file, experiment_monitor, el_tracker, tracker_version,
                 args, log, last_op, exit_status, calls>>

\* self.experiment_window.color = self.color_eyelink_bg, and a flip.
_swap_bg_color_to_calibration_screen ==
  /\ pc = "_calibrate_eyelink"
  /\ experiment_window' = [experiment_window EXCEPT !.color = self.color_eyelink_bg]
  /\ pc' = "make_message"
  /\ UNCHANGED <<self, edf_file, experiment_monitor, el_tracker, tracker_version,
                 args, log, last_op, exit_status, calls>>

\* The calibration message is drawn and the participant presses space.
make_message ==
  /\ pc = "make_message"
  /\ log' = Append(log, L("make_message", "", experiment_window.color, "ok"))
  /\ pc' = "openGraphicsEx"
  /\ UNCHANGED <<self, edf_file, experiment_monitor, experiment_window, el_tracker,
                 tracker_version, args, last_op, exit_status, calls>>

openGraphicsEx ==
  /\ pc = "openGraphicsEx"
  /\ log' = Append(log, L("openGraphicsEx", "", "", "ok"))
  /\ el_tracker' = SDK(el_tracker, "openGraphicsEx")
  /\ pc' = "doTrackerSetup"
  /\ UNCHANGED <<self, edf_file, experiment_monitor, experiment_window,
                 tracker_version, args, last_op, exit_status, calls>>

doTrackerSetup ==
  /\ pc = "doTrackerSetup"
  /\ log' = Append(log, L("doTrackerSetup", "", experiment_window.color, "ok"))
  /\ Return("_calibrate_eyelink")
  /\ UNCHANGED <<self, edf_file, experiment_monitor, experiment_window, el_tracker,
                 tracker_version, args, exit_status, calls>>

startRecording ==
  /\ pc = "_start_eyelink_recording"
  /\ log' = Append(log, L("startRecording", "", <<1, 1, 1, 1>>, "ok"))
  /\ el_tracker' = SDK(el_tracker, "startRecording")
  /\ pc' = "start_run"
  /\ UNCHANGED <<self, edf_file, experiment_monitor, experiment_window,
                 tracker_version, args, last_op, exit_status, calls>>

start_run ==
  /\ pc = "start_run"
  /\ log' = Append(log, L("sendMessage", "start_run", "", "ok"))
  /\ pc' = "_swap_bg_color_to_task_screen"
  /\ UNCHANGED <<self, edf_file, experiment_monitor, experiment_window, el_tracker,
                 tracker_version, args, last_op, exit_status, calls>>

\* self.experiment_window.color = self.color_bg, and a flip.
_swap_bg_color_to_task_screen ==
  /\ pc = "_swap_bg_color_to_task_screen"
  /\ experiment_window' = [experiment_window EXCEPT !.color = self.color_bg]
  /\ Return("_start_eyelink_recording")
  /\ UNCHANGED <<self, edf_file, experiment_monitor, el_tracker, tracker_version,
                 args, log, exit_status, calls>>

----------------------------------------------------------------------------
\* disconnect_eyelink()

\* The call of one step of disconnect_eyelink_body, as logged.
TeardownCall(step) ==
  CASE step = "clear_screen" -> Command("clear_screen", <<0>>)
    [] step = "msecDelay"    -> L("msecDelay", "", <<500>>, "ok")
    [] OTHER                 -> L(step, "", "", "ok")

\* The method's first statement sends 'end_run'. It raises AttributeError
\* on an object that never connected; on a tracker whose link is down the
\* SDK either returns or raises RuntimeError.
disconnect_eyelink ==
  /\ pc = "idle"
  /\ calls < MaxCalls
  /\ calls' = calls + 1
  /\ IF ~el_tracker.exists
     THEN /\ log' = <<>>
          /\ pc' = "crashed"
     ELSE IF el_tracker.connected
     THEN /\ log' = <<L("sendMessage", "end_run", "", "ok")>>
          /\ pc' = "isConnected"
     ELSE \/ /\ log' = <<L("sendMessage", "end_run", "", "ok")>>
             /\ pc' = "isConnected"
          \/ /\ log' = <<L("sendMessage", "end_run", "", "RuntimeError")>>
             /\ pc' = "crashed"
  /\ UNCHANGED <<self, edf_file, experiment_monitor, experiment_window,
                 el_tracker, tracker_version, args, last_op, exit_status>>

\* if self.el_tracker.isConnected():
isConnected ==
  /\ pc = "isConnected"
  /\ log' = Append(log, L("isConnected", "", "",
                          IF el_tracker.connected THEN "True" ELSE "False"))
  /\ pc' = IF el_tracker.connected THEN disconnect_eyelink_body[1] ELSE "idle"
  /\ last_op' = IF el_tracker.connected THEN last_op ELSE "disconnect_eyelink"
  /\ UNCHANGED <<self, edf_file, experiment_monitor, experiment_window,
                 el_tracker, tracker_version, args, exit_status, calls>>

\* One call of the guarded block, then the next one or the return.
teardown ==
  /\ InBody(disconnect_eyelink_body, pc)
  /\ log' = Append(log, TeardownCall(pc))
  /\ el_tracker' = SDK(el_tracker, pc)
  /\ pc' = After(disconnect_eyelink_body, pc)
  /\ last_op' = IF pc' = "idle" THEN "disconnect_eyelink" ELSE last_op
  /\ UNCHANGED <<self, edf_file, experiment_monitor, experiment_window,
                 tracker_version, args, exit_status, calls>>

\* The link to the host PC drops while the task runs between two calls.
LinkLost ==
  /\ pc = "idle"
  /\ el_tracker.connected
  /\ el_tracker' = [el_tracker EXCEPT !.connected = FALSE]
  /\ UNCHANGED <<pc, self, edf_file, experiment_monitor, experiment_window,
                 tracker_version, args, log, last_op, exit_status, calls>>

----------------------------------------------------------------------------

Next ==
  \/ __init__
  \/ open_window
  \/ trigger_eyelink
  \/ _connect_eyelink
  \/ _open_edf_file
  \/ _send_edf_preamble
  \/ _config_eyelink
  \/ _swap_bg_color_to_calibration_screen
  \/ make_message
  \/ openGraphicsEx
  \/ doTrackerSetup
  \/ startRecording
  \/ start_run
  \/ _swap_bg_color_to_task_screen
  \/ disconnect_eyelink
  \/ isConnected
  \/ teardown
  \/ LinkLost

Spec == Init /\ [][Next]_vars

----------------------------------------------------------------------------
\* Reading the log.

Where(P(_)) == {i \in DOMAIN log : P(log[i])}

Count(P(_)) == Cardinality(Where(P))

IsCall(e, call) == e.call = call

IsCommand(e, name) == e.call = "sendCommand" /\ e.name = name

\* The configuration commands: all that _config_eyelink may send.
ConfigNames ==
  {"file_event_filter", "file_sample_data", "link_event_filter",
   "link_sample_data", "sample_rate", "calibration_type",
   "randomize_calibration_order", "calibration_area_proportion",
   "validation_area_proportion", "button_function", "screen_pixel_coords",
   "calibration_targets"}

IsConfig(e) == e.call = "sendCommand" /\ e.name \in ConfigNames

\* The place of a call among the steps of a session, 0 for any other call.
Rank(e) ==
  CASE e.call = "EyeLink"        -> 1
    [] e.call = "openDataFile"   -> 2
    [] IsCommand(e, "add_file_preamble_text") -> 3
    [] IsConfig(e)               -> 4
    [] e.call = "doTrackerSetup" -> 5
    [] e.call = "startRecording" -> 6
    [] OTHER                     -> 0

TriggerReturned == pc = "idle" /\ last_op = "trigger_eyelink"

DisconnectReturned == pc = "idle" /\ last_op = "disconnect_eyelink"

Has(seq, x) == \E i \in DOMAIN seq : seq[i] = x

----------------------------------------------------------------------------
\* C1: in a run of trigger_eyelink that does not fail, connecting, opening
\* the data file, the preamble, the configuration commands, calibration and
\* the start of recording each happen once and in this order, and no
\* configuration command, calibration or recording call is made before the
\* data file was opened successfully.
C1_TriggerOrder ==
  /\ \A i, j \in DOMAIN log :
       (i < j /\ Rank(log[i]) > 0 /\ Rank(log[j]) > 0) =>
         \/ Rank(log[i]) < Rank(log[j])
         \/ Rank(log[i]) = 4 /\ Rank(log[j]) = 4 /\ log[i].name # log[j].name
  /\ \A i \in DOMAIN log :
       Rank(log[i]) > 3 =>
         \E j \in 1..(i - 1) : IsCall(log[j], "openDataFile") /\ log[j].ret = "ok"
  /\ TriggerReturned =>
       /\ \A r \in {1, 2, 3, 5, 6} :
            Cardinality({i \in DOMAIN log : Rank(log[i]) = r}) = 1
       /\ \A n \in ConfigNames \ {"sample_rate"} :
            Cardinality({i \in DOMAIN log : IsCommand(log[i], n)}) = 1
       /\ \A i \in DOMAIN log : log[i].ret \in {"ok"}

C1_Witness ==
  /\ TriggerReturned
  /\ el_tracker.recording
  /\ Len(log) > 6

C2_ConnectFailureState ==
  \A i \in DOMAIN log :
    (IsCall(log[i], "EyeLink") /\ log[i].ret = "RuntimeError"
       /\ experiment_window.exists) =>
      /\ Len(log) = 1
      /\ pc = "exited"
      /\ exit_status = 1
      /\ ~experiment_window.open

\* C2: when connecting raises with the window open, the connection was
\* tried once, the window is closed, the process has exited with status 1,
\* and it makes no tracker call afterwards.
C2_ConnectFailure ==
  /\ []C2_ConnectFailureState
  /\ [][pc = "exited" => (pc' = "exited" /\ log' = log)]_vars

C2_Witness ==
  /\ pc = "exited"
  /\ Len(log) = 1
  /\ log[1].call = "EyeLink"
  /\ log[1].ret = "RuntimeError"

\* C3: when opening the data file raises, the link is closed if it was
\* connected and the window is closed before the process exits with status
\* 1; nothing but the handler's isConnected and close follows the failure,
\* and the link is not open when the process has ended.
C3_OpenFailure ==
  \A i \in DOMAIN log :
    (IsCall(log[i], "openDataFile") /\ log[i].ret = "RuntimeError") =>
      /\ ~el_tracker.connected
      /\ Len(log) > i
      /\ IsCall(log[i + 1], "isConnected")
      /\ IF log[i + 1].ret = "True"
         THEN Len(log) = i + 2 /\ IsCall(log[i + 2], "close")
         ELSE Len(log) = i + 1
      /\ experiment_window.exists =>
           (pc = "exited" /\ exit_status = 1 /\ ~experiment_window.open)

C3_Witness ==
  /\ pc = "exited"
  /\ Len(log) = 4
  /\ log[2].call = "openDataFile"
  /\ log[4].call = "close"

CalibrationPcs ==
  {"make_message", "openGraphicsEx", "doTrackerSetup",
   "_start_eyelink_recording", "start_run", "_swap_bg_color_to_task_screen"}

C4_BackgroundState ==
  /\ pc \in CalibrationPcs => experiment_window.color = self.color_eyelink_bg
  /\ \A i \in DOMAIN log :
       (IsCall(log[i], "make_message") \/ IsCall(log[i], "doTrackerSetup")) =>
         log[i].val = self.color_eyelink_bg
  /\ TriggerReturned => experiment_window.color = self.color_bg

C4_BackgroundStep ==
  (experiment_window.exists /\ experiment_window'.color # experiment_window.color) =>
     \/ /\ pc = "_calibrate_eyelink"
        /\ experiment_window'.color = self.color_eyelink_bg
     \/ /\ experiment_window'.color = self.color_bg
        /\ el_tracker.recording
        /\ log # <<>>
        /\ log[Len(log)].call = "sendMessage"
        /\ log[Len(log)].name = "start_run"
        /\ Count(LAMBDA e : IsCall(e, "doTrackerSetup")) = 1

\* C4: the window has the colour color_eyelink_bg when the calibration
\* message is shown and through calibration, it changes back to color_bg
\* only once recording is on and 'start_run' was sent, and it is color_bg
\* when trigger_eyelink has returned.
C4_Background ==
  /\ []C4_BackgroundState
  /\ [][C4_BackgroundStep]_vars

C4_Witness ==
  /\ TriggerReturned
  /\ self.color_bg # self.color_eyelink_bg
  /\ experiment_window.color = self.color_bg
  /\ Count(LAMBDA e : IsCall(e, "doTrackerSetup")) = 1

TeardownOrder ==
  <<"sendMessage", "isConnected", "stopRecording", "setOfflineMode",
    "sendCommand", "msecDelay", "closeDataFile", "closeGraphics", "close">>

\* C5: disconnect_eyelink on a connected tracker sends 'end_run', stops
\* recording, sets offline mode, clears the host screen, closes the data
\* file, closes graphics and closes the link, in this order: 'end_run' goes
\* out while recording is on, recording is off when the file is closed, the
\* file is closed when the link is closed, and all three are off at the end.
C5_Teardown ==
  /\ (pc = "isConnected" /\ el_tracker.connected) =>
       /\ el_tracker.recording
       /\ Len(log) = 1
       /\ log[1].name = "end_run"
  /\ pc = "closeDataFile" => (~el_tracker.recording /\ el_tracker.connected)
  /\ pc = "close" => (~el_tracker.edf_open /\ el_tracker.connected)
  /\ (pc = "isConnected" \/ InBody(disconnect_eyelink_body, pc)
        \/ (DisconnectReturned /\ Len(log) > 2)) =>
       /\ Len(log) <= Len(TeardownOrder)
       /\ \A i \in DOMAIN log : log[i].call = TeardownOrder[i]
       /\ Len(log) >= 5 => log[5].name = "clear_screen"
  /\ (DisconnectReturned /\ Len(log) > 2) =>
       /\ Len(log) = Len(TeardownOrder)
       /\ ~el_tracker.recording
       /\ ~el_tracker.edf_open
       /\ ~el_tracker.connected
       /\ ~el_tracker.graphics
       /\ el_tracker.offline

C5_Witness ==
  /\ DisconnectReturned
  /\ Len(log) = 9
  /\ log[9].call = "close"

MajorVersion ==
  CASE tracker_version = EYELINK_II   -> 2
    [] tracker_version = EYELINK_CL3  -> 3
    [] tracker_version = EYELINK_CL4  -> 4
    [] tracker_version = EYELINK_CL5  -> 5
    [] tracker_version = EYELINK_CL10 -> 10
    [] OTHER                          -> -1

Configured == Count(LAMBDA e : IsCommand(e, "calibration_targets")) > 0

\* C8: _config_eyelink sets offline mode before its first command; it
\* sends 'sample_rate 1000' exactly when the major version is above 2, the
\* sample data lists hold HTARGET exactly when it is above 3, and every
\* other command goes out once: 12 commands above version 2, 11 otherwise.
C8_ConfigCommands ==
  /\ \A i \in DOMAIN log :
       IsConfig(log[i]) => \E j \in 1..(i - 1) : IsCall(log[j], "setOfflineMode")
  /\ Configured =>
       /\ MajorVersion >= 0
       /\ Count(LAMBDA e : IsCommand(e, "sample_rate")) =
            (IF MajorVersion > 2 THEN 1 ELSE 0)
       /\ \A i \in DOMAIN log :
            IsCommand(log[i], "sample_rate") => log[i].val = <<1000>>
       /\ \A i \in DOMAIN log :
            (IsCommand(log[i], "file_sample_data")
               \/ IsCommand(log[i], "link_sample_data")) =>
              (Has(log[i].val, "HTARGET") <=> MajorVersion > 3)
       /\ \A n \in ConfigNames \ {"sample_rate"} :
            Count(LAMBDA e : IsCommand(e, n)) = 1
       /\ \A i \in DOMAIN log :
            IsCommand(log[i], "calibration_type") => log[i].val = <<"HV9">>
       /\ Count(IsConfig) = (IF MajorVersion > 2 THEN 12 ELSE 11)

C8_Witness ==
  /\ pc = "_calibrate_eyelink"
  /\ MajorVersion = 3
  /\ Count(LAMBDA e : IsCommand(e, "sample_rate")) = 1
  /\ Count(IsConfig) = 12

Constructed == last_op # "none"

\* C6: once the object is constructed, the monitor object's width,
\* distance and pixel size are the object's monitor_width, monitor_distance
\* and monitor_px, and every field named in the keyword arguments holds the
\* caller's value.
C6_FieldsReachSDK ==
  Constructed =>
    /\ experiment_monitor.width = self.monitor_width
    /\ experiment_monitor.distance = self.monitor_distance
    /\ experiment_monitor.sizePix = self.monitor_px
    /\ \A f \in DOMAIN args.kwargs : self[f] = args.kwargs[f]

EdfBaseLimit == 8

\* C7: the name given to openDataFile is subject_id, the first character
\* of phase, the block number in decimal and '.EDF', and the part before
\* '.EDF' has at most 8 characters.
C7_EdfName ==
  \A i \in DOMAIN log :
    IsCall(log[i], "openDataFile") =>
      /\ log[i].val =
           self.subject_id \o FirstChar(args.phase) \o Str(args.block)
             \o <<".", "E", "D", "F">>
      /\ Len(log[i].val) - 4 <= EdfBaseLimit

Inside(p, rect) ==
  /\ rect[1] <= p[1]
  /\ p[1] <= rect[3]
  /\ rect[2] <= p[2]
  /\ p[2] <= rect[4]

\* C9: the 9 calibration targets _config_eyelink sends lie inside the
\* rectangle it sends as screen_pixel_coords, and no two of them are equal.
C9_TargetsOnScreen ==
  \A i \in DOMAIN log :
    IsCommand(log[i], "calibration_targets") =>
      /\ Len(log[i].val) = 9
      /\ \A a, b \in 1..9 : a # b => log[i].val[a] # log[i].val[b]
      /\ \E j \in 1..(i - 1) :
           /\ IsCommand(log[j], "screen_pixel_coords")
           /\ \A k \in 1..9 : Inside(log[i].val[k], log[j].val)

NeedsLink ==
  {"sendMessage", "sendCommand", "stopRecording", "setOfflineMode",
   "closeDataFile", "closeGraphics", "close"}

\* C10: when the tracker is not connected, disconnect_eyelink sends no
\* message or command and calls none of stopRecording, setOfflineMode,
\* closeDataFile, closeGraphics and close.
C10_NoCallWithoutLink ==
  ((pc = "isConnected" \/ DisconnectReturned) /\ ~el_tracker.connected
     /\ Count(LAMBDA e : IsCall(e, "close")) = 0) =>
    \A i \in DOMAIN log : log[i].call \notin NeedsLink

====
